---- MODULE Spec2Model ----
(***************************************************************************)
(* A model of lingua/tokenizer.py: the tokenizer factory and the encode,   *)
(* decode and get_token_offsets methods of the byte-level, amino-acid      *)
(* (fixed-alphabet), tiktoken (byte-pair) and mock tokenizers.             *)
(*                                                                         *)
(* A Python str is a sequence of Unicode scalar values (code points), a    *)
(* bytes object a sequence of integers in 0..255, a token list a sequence  *)
(* of integers.                                                            *)
(***************************************************************************)
EXTENDS Integers, Sequences, FiniteSets, TLC

\* Longest text given to encode / get_token_offsets.
MaxLen == 3
\* Most cut points the byte-pair backend places in the UTF-8 bytes of a text
\* (it returns at most MaxCuts + 1 pieces).
MaxCuts == 2

\* The characters texts are drawn from: ' ', 'A', 'V' (one byte each),
\* U+00E9 (two bytes), U+20AC (three bytes), U+1F600 (four bytes).
Chars == {32, 65, 86, 233, 8364, 128512}

RECURSIVE SeqsUpTo(_)
SeqsUpTo(n) ==
    IF n = 0 THEN {<<>>}
    ELSE LET S == SeqsUpTo(n - 1) IN
         S \cup {Append(s, c) : s \in {t \in S : Len(t) = n - 1}, c \in Chars}

Texts == SeqsUpTo(MaxLen)

\* ---------------------------------------------------------------- helpers

\* bool-as-int list repetition: [x] * flag
Rep(x, flag) == IF flag THEN <<x>> ELSE <<>>

RECURSIVE Flatten(_)
\* sum(lists, start=[]) and ''.join(strs)
Flatten(ss) == IF ss = <<>> THEN <<>> ELSE Head(ss) \o Flatten(Tail(ss))

RECURSIVE SelectLt(_, _)
\* [t for t in tokens if t < bound]
SelectLt(tokens, bound) ==
    IF tokens = <<>> THEN <<>>
    ELSE (IF Head(tokens) < bound THEN <<Head(tokens)>> ELSE <<>>)
         \o SelectLt(Tail(tokens), bound)

\* dict.get(key, default) on a function used as a dict
DictGet(d, k, default) == IF k \in DOMAIN d THEN d[k] ELSE default

\* Python slice s[i:j] with 0 <= i, j (0-based, end exclusive, clamped)
Slice(s, i, j) ==
    LET hi == IF j > Len(s) THEN Len(s) ELSE j IN
    IF i >= hi THEN <<>> ELSE SubSeq(s, i + 1, hi)

\* ------------------------------------------------------------------ UTF-8

\* 0x80 <= b < 0xC0
IsCont(b) == 128 <= b /\ b < 192

\* str.encode() of one character
EncodeChar(cp) ==
    IF cp < 128 THEN <<cp>>
    ELSE IF cp < 2048 THEN <<192 + (cp \div 64), 128 + (cp % 64)>>
    ELSE IF cp < 65536 THEN
        <<224 + (cp \div 4096), 128 + ((cp \div 64) % 64), 128 + (cp % 64)>>
    ELSE
        <<240 + (cp \div 262144), 128 + ((cp \div 4096) % 64),
          128 + ((cp \div 64) % 64), 128 + (cp % 64)>>

RECURSIVE StrEncode(_)
\* str.encode(): the UTF-8 bytes of a text
StrEncode(s) ==
    IF s = <<>> THEN <<>> ELSE EncodeChar(Head(s)) \o StrEncode(Tail(s))

\* Length of the well-formed UTF-8 sequence at the head of bs, 0 if none.
ValidLen(bs) ==
    LET b == bs[1]
        n == Len(bs)
    IN  IF b < 128 THEN 1
        ELSE IF 194 <= b /\ b <= 223 THEN
            (IF n >= 2 /\ IsCont(bs[2]) THEN 2 ELSE 0)
        ELSE IF 224 <= b /\ b <= 239 THEN
            (IF /\ n >= 3
                /\ IsCont(bs[2])
                /\ (b = 224 => bs[2] >= 160)
                /\ (b = 237 => bs[2] < 160)
                /\ IsCont(bs[3])
             THEN 3 ELSE 0)
        ELSE IF 240 <= b /\ b <= 244 THEN
            (IF /\ n >= 4
                /\ IsCont(bs[2])
                /\ (b = 240 => bs[2] >= 144)
                /\ (b = 244 => bs[2] < 144)
                /\ IsCont(bs[3])
                /\ IsCont(bs[4])
             THEN 4 ELSE 0)
        ELSE 0

\* The code point of a well-formed sequence of n bytes at the head of bs.
CodePoint(bs, n) ==
    IF n = 1 THEN bs[1]
    ELSE IF n = 2 THEN (bs[1] - 192) * 64 + (bs[2] - 128)
    ELSE IF n = 3 THEN
        (bs[1] - 224) * 4096 + (bs[2] - 128) * 64 + (bs[3] - 128)
    ELSE (bs[1] - 240) * 262144 + (bs[2] - 128) * 4096
         + (bs[3] - 128) * 64 + (bs[4] - 128)

HexDigit(d) == IF d < 10 THEN 48 + d ELSE 87 + d

\* What errors="backslashreplace" writes for one undecodable byte: \xNN
BackslashEscape(b) == <<92, 120, HexDigit(b \div 16), HexDigit(b % 16)>>

RECURSIVE BytesDecode(_, _)
\* bytes.decode("utf-8", errors=errors), errors "ignore" or "backslashreplace".
\* Every byte that starts no well-formed sequence is handled on its own: the
\* bytes after a bad lead byte are continuation bytes, bad start bytes too.
BytesDecode(bs, errors) ==
    IF bs = <<>> THEN <<>>
    ELSE LET n == ValidLen(bs) IN
         IF n = 0 THEN
             (IF errors = "ignore" THEN <<>> ELSE BackslashEscape(bs[1]))
             \o BytesDecode(Tail(bs), errors)
         ELSE <<CodePoint(bs, n)>> \o BytesDecode(SubSeq(bs, n + 1, Len(bs)), errors)

\* ----------------------------------------------------------- ByteTokenizer

Byte_bos_id == 256
Byte_eos_id == 257
Byte_n_words == 258

ByteEncode(s, add_bos, add_eos) ==
    Rep(Byte_bos_id, add_bos) \o StrEncode(s) \o Rep(Byte_eos_id, add_eos)

\* ByteDecode with the filter off by one (t <= 256): the begin marker is kept.
ByteDecode_OffByOne(tokens) ==
    BytesDecode(SelectLt(tokens, 257), "backslashreplace")

ByteDecode(tokens) == BytesDecode(SelectLt(tokens, 256), "backslashreplace")

RECURSIVE ByteOffsetsLoop(_, _, _, _)
\* The loop of get_token_offsets: returns <<decoded_chars, offsets>>.
ByteOffsetsLoop(tokens, decoded_chars, offs, byte_pos) ==
    IF tokens = <<>> THEN <<decoded_chars, offs>>
    ELSE LET token == Head(tokens) IN
         IF token < 256 THEN
             LET char == BytesDecode(<<token>>, "ignore") IN
             ByteOffsetsLoop(
                 Tail(tokens),
                 IF char # <<>> THEN Append(decoded_chars, char) ELSE decoded_chars,
                 IF char # <<>> THEN Append(offs, byte_pos) ELSE offs,
                 byte_pos + Len(StrEncode(char)))
         ELSE ByteOffsetsLoop(Tail(tokens), decoded_chars, offs, byte_pos)

\* get_token_offsets(text) with tokens omitted
ByteGetTokenOffsets(s) ==
    ByteOffsetsLoop(ByteEncode(s, FALSE, FALSE), <<>>, <<>>, 0)

\* ------------------------------------------------------ AminoAcidTokenizer

\* 'A','R','N','D','C','E','Q','G','H','I','L','K','M','F','P','S','T','W','Y','V'
AMINO_ACIDS ==
    <<65, 82, 78, 68, 67, 69, 81, 71, 72, 73,
      76, 75, 77, 70, 80, 83, 84, 87, 89, 86>>

\* The strings '<BOS>', '<EOS>', '<UNK>', '<PAD>'
BOS_STR == <<60, 66, 79, 83, 62>>
EOS_STR == <<60, 69, 79, 83, 62>>
UNK_STR == <<60, 85, 78, 75, 62>>
PAD_STR == <<60, 80, 65, 68, 62>>

SPECIAL_TOKENS ==
    (BOS_STR :> 0) @@ (EOS_STR :> 1) @@ (UNK_STR :> 2) @@ (PAD_STR :> 3)

\* TOKEN_TO_ID with the letters' ids one too high.
TOKEN_TO_ID_OffByOne ==
    SPECIAL_TOKENS @@
    [k \in {<<AMINO_ACIDS[i]>> : i \in DOMAIN AMINO_ACIDS} |->
        (CHOOSE i \in DOMAIN AMINO_ACIDS : AMINO_ACIDS[i] = k[1])
        + Cardinality(DOMAIN SPECIAL_TOKENS)]

\* {aa: idx + len(SPECIAL_TOKENS)}, then .update(SPECIAL_TOKENS)
TOKEN_TO_ID ==
    SPECIAL_TOKENS @@
    [k \in {<<AMINO_ACIDS[i]>> : i \in DOMAIN AMINO_ACIDS} |->
        (CHOOSE i \in DOMAIN AMINO_ACIDS : AMINO_ACIDS[i] = k[1]) - 1
        + Cardinality(DOMAIN SPECIAL_TOKENS)]

\* {idx + len(SPECIAL_TOKENS): aa}, then .update({id: token})
ID_TO_TOKEN ==
    [id \in {SPECIAL_TOKENS[k] : k \in DOMAIN SPECIAL_TOKENS} |->
        CHOOSE k \in DOMAIN SPECIAL_TOKENS : SPECIAL_TOKENS[k] = id]
    @@
    [id \in {i - 1 + Cardinality(DOMAIN SPECIAL_TOKENS) : i \in DOMAIN AMINO_ACIDS} |->
        <<AMINO_ACIDS[id + 1 - Cardinality(DOMAIN SPECIAL_TOKENS)]>>]

AA_bos_id == SPECIAL_TOKENS[BOS_STR]
AA_eos_id == SPECIAL_TOKENS[EOS_STR]
AA_n_words == Cardinality(DOMAIN TOKEN_TO_ID)

RECURSIVE AAEncodeLoop(_)
\* for char in text: tokens.append(TOKEN_TO_ID.get(char, UNK))
AAEncodeLoop(s) ==
    IF s = <<>> THEN <<>>
    ELSE <<DictGet(TOKEN_TO_ID, <<Head(s)>>, SPECIAL_TOKENS[UNK_STR])>>
         \o AAEncodeLoop(Tail(s))

\* AAEncode with the two markers swapped.
AAEncode_SwappedMarkers(s, add_bos, add_eos) ==
    LET t0 == AAEncodeLoop(s)
        t1 == IF add_bos THEN <<SPECIAL_TOKENS[EOS_STR]>> \o t0 ELSE t0
    IN  IF add_eos THEN t1 \o <<SPECIAL_TOKENS[BOS_STR]>> ELSE t1

AAEncode(s, add_bos, add_eos) ==
    LET t0 == AAEncodeLoop(s)
        t1 == IF add_bos THEN <<SPECIAL_TOKENS[BOS_STR]>> \o t0 ELSE t0
    IN  IF add_eos THEN t1 \o <<SPECIAL_TOKENS[EOS_STR]>> ELSE t1

RECURSIVE AADecodeLoop_KeepUnknown(_)
\* AADecodeLoop that skips the begin, end and pad markers only.
AADecodeLoop_KeepUnknown(tokens) ==
    IF tokens = <<>> THEN <<>>
    ELSE LET token_str == DictGet(ID_TO_TOKEN, Head(tokens), UNK_STR) IN
         (IF token_str \in {BOS_STR, EOS_STR, PAD_STR} THEN <<>> ELSE <<token_str>>)
         \o AADecodeLoop_KeepUnknown(Tail(tokens))

RECURSIVE AADecodeLoop(_)
\* The list chars of decode: the token strings that are not special.
AADecodeLoop(tokens) ==
    IF tokens = <<>> THEN <<>>
    ELSE LET token_str == DictGet(ID_TO_TOKEN, Head(tokens), UNK_STR) IN
         (IF token_str \in DOMAIN SPECIAL_TOKENS THEN <<>> ELSE <<token_str>>)
         \o AADecodeLoop(Tail(tokens))

AADecode(tokens) == Flatten(AADecodeLoop(tokens))

RECURSIVE AAOffsetsLoop(_, _, _, _)
\* The loop of get_token_offsets: returns <<token_texts, offsets>>.
AAOffsetsLoop(tokens, token_texts, offs, idx) ==
    IF tokens = <<>> THEN <<token_texts, offs>>
    ELSE LET token_str == DictGet(ID_TO_TOKEN, Head(tokens), UNK_STR) IN
         IF token_str \in DOMAIN SPECIAL_TOKENS
         THEN AAOffsetsLoop(Tail(tokens), token_texts, offs, idx)
         ELSE AAOffsetsLoop(Tail(tokens), Append(token_texts, token_str),
                            Append(offs, idx), idx + 1)

\* get_token_offsets(text) with tokens omitted: tokens = None or encode(text)
AAGetTokenOffsets(s) ==
    AAOffsetsLoop(AAEncode(s, FALSE, FALSE), <<>>, <<>>, 0)

\* ------------------------------------------------------- TikTokenTokenizer

\* The slice length of encode, scaled down from 400_000.
TIKTOKEN_MAX_ENCODE_CHARS == 2

\* The backend (tiktoken.core.Encoding) is an external library. Its ordinary
\* encoding is modelled as one token per maximal run of whitespace or of
\* non-whitespace characters of the string it is given, whatever surrounds
\* that string; a token's id (its rank) is an injective numbering of the run.
IsSpace(c) == c \in {9, 10, 11, 12, 13, 32}

RECURSIVE RunsLoop(_, _)
RunsLoop(s, cur) ==
    IF s = <<>> THEN (IF cur = <<>> THEN <<>> ELSE <<cur>>)
    ELSE IF cur = <<>> \/ (IsSpace(cur[1]) <=> IsSpace(Head(s)))
         THEN RunsLoop(Tail(s), Append(cur, Head(s)))
         ELSE <<cur>> \o RunsLoop(Tail(s), <<Head(s)>>)

Runs(s) == RunsLoop(s, <<>>)

VocabBase == Cardinality(Chars) + 1

RECURSIVE Rank(_)
Rank(run) ==
    IF run = <<>> THEN 0
    ELSE Cardinality({d \in Chars : d <= Head(run)}) + VocabBase * Rank(Tail(run))

\* len(mergeable_ranks)
NumRanks == VocabBase ^ (MaxLen + 1)

\* tkt_model.encode_ordinary(s)
EncodeOrdinary(s) == LET r == Runs(s) IN [i \in 1..Len(r) |-> Rank(r[i])]

\* "<|begin_of_text|>" and "<|end_of_text|>" of DEFAULT_TIKTOKEN_SPECIAL_TOKENS,
\* shifted by len(mergeable_ranks)
Tik_bos_id == NumRanks + 0
Tik_eos_id == NumRanks + 1

\* subs: s[i : i + TIKTOKEN_MAX_ENCODE_CHARS] for i in range(0, len(s), MAX)
Subs(s) ==
    [k \in 1..((Len(s) + TIKTOKEN_MAX_ENCODE_CHARS - 1) \div TIKTOKEN_MAX_ENCODE_CHARS) |->
        Slice(s, (k - 1) * TIKTOKEN_MAX_ENCODE_CHARS, k * TIKTOKEN_MAX_ENCODE_CHARS)]

TikEncode(s, add_bos, add_eos) ==
    LET subs == Subs(s) IN
    Rep(Tik_bos_id, add_bos)
    \o Flatten([k \in 1..Len(subs) |-> EncodeOrdinary(subs[k])])
    \o Rep(Tik_eos_id, add_eos)

\* sum(1 for c in token if not 0x80 <= c < 0xC0)
NonContCount(token) == Cardinality({i \in 1..Len(token) : ~IsCont(token[i])})

RECURSIVE TikOffsetsLoop_ByteAdvance(_, _, _)
\* TikOffsetsLoop that advances the cursor by the bytes of the piece.
TikOffsetsLoop_ByteAdvance(token_bytes, text_len, offs) ==
    IF token_bytes = <<>> THEN offs
    ELSE LET token == Head(token_bytes)
             o == text_len - (IF IsCont(token[1]) THEN 1 ELSE 0)
         IN  TikOffsetsLoop_ByteAdvance(Tail(token_bytes),
                                        text_len + Len(token),
                                        Append(offs, IF o > 0 THEN o ELSE 0))

RECURSIVE TikOffsetsLoop_NoBackOff(_, _, _)
\* TikOffsetsLoop that does not back off for a piece that begins mid-character.
TikOffsetsLoop_NoBackOff(token_bytes, text_len, offs) ==
    IF token_bytes = <<>> THEN offs
    ELSE LET token == Head(token_bytes) IN
         TikOffsetsLoop_NoBackOff(Tail(token_bytes),
                                  text_len + NonContCount(token),
                                  Append(offs, text_len))

RECURSIVE TikOffsetsLoop(_, _, _)
\* The loop of get_token_offsets over token_bytes: returns offsets.
TikOffsetsLoop(token_bytes, text_len, offs) ==
    IF token_bytes = <<>> THEN offs
    ELSE LET token == Head(token_bytes)
             o == text_len - (IF IsCont(token[1]) THEN 1 ELSE 0)
         IN  TikOffsetsLoop(Tail(token_bytes),
                            text_len + NonContCount(token),
                            Append(offs, IF o > 0 THEN o ELSE 0))

\* get_token_offsets(text), token_bytes being what the backend returns for it
TikGetTokenOffsets(s, token_bytes) ==
    LET offs == TikOffsetsLoop(token_bytes, 0, <<>>) IN
    <<[i \in 1..Len(offs) |->
          Slice(s, offs[i], IF i < Len(offs) THEN offs[i + 1] ELSE Len(s))],
      offs>>

RECURSIVE CutSets(_, _, _)
\* The sets of at most k cut points in lo..hi.
CutSets(lo, hi, k) ==
    IF k = 0 THEN {{}}
    ELSE {{}} \cup UNION {{{c} \cup r : r \in CutSets(c + 1, hi, k - 1)} : c \in lo..hi}

RECURSIVE SplitAt(_, _, _)
\* bs[start:] cut after every position in cuts (all greater than start).
SplitAt(bs, cuts, start) ==
    IF cuts = {} THEN <<SubSeq(bs, start + 1, Len(bs))>>
    ELSE LET c == CHOOSE x \in cuts : \A y \in cuts : x <= y IN
         <<SubSeq(bs, start + 1, c)>> \o SplitAt(bs, cuts \ {c}, c)

\* What decode_tokens_bytes(encode(text)) can return: the UTF-8 bytes of the
\* text cut into non-empty pieces, in any places.
TokenBytes(s) ==
    LET bs == StrEncode(s) IN
    IF bs = <<>> THEN {<<>>}
    ELSE {SplitAt(bs, cuts, 0) : cuts \in CutSets(1, Len(bs) - 1, MaxCuts)}

\* ----------------------------------------------------------------- factory

\* The abstract methods of class Tokenizer
TokenizerAbstract == {"encode", "decode", "get_token_offsets"}

\* The methods each subclass defines
ClassMethods(cls) ==
    IF cls = "MockTokenizer" THEN {"encode"}
    ELSE {"__init__", "encode", "decode", "get_token_offsets"}

\* cls(): Python refuses to instantiate a class with abstract methods left
Instantiate(cls) ==
    IF TokenizerAbstract \ ClassMethods(cls) = {}
    THEN [cls |-> cls, error |-> "none"]
    ELSE [cls |-> "none", error |-> "TypeError"]

Names == {"bytes", "mock", "sp", "tiktoken", "aa", "other"}

build_tokenizer(name, path_ok, sp_ok, tiktoken_ok) ==
    IF name = "bytes" THEN Instantiate("ByteTokenizer")
    ELSE IF name = "mock" THEN Instantiate("MockTokenizer")
    ELSE IF name = "sp" THEN
        (IF sp_ok /\ path_ok THEN Instantiate("SentencePieceTokenizer")
         ELSE [cls |-> "none", error |-> "AssertionError"])
    ELSE IF name = "tiktoken" THEN
        (IF ~tiktoken_ok THEN [cls |-> "none", error |-> "AssertionError"]
         ELSE IF ~path_ok THEN [cls |-> "none", error |-> "LoadError"]
         ELSE Instantiate("TikTokenTokenizer"))
    ELSE IF name = "aa" THEN Instantiate("AminoAcidTokenizer")
    ELSE [cls |-> "none", error |-> "NotImplementedError"]

\* ---------------------------------------------------------------- dispatch

encode(cls, s, add_bos, add_eos) ==
    IF cls = "ByteTokenizer" THEN ByteEncode(s, add_bos, add_eos)
    ELSE IF cls = "AminoAcidTokenizer" THEN AAEncode(s, add_bos, add_eos)
    ELSE IF cls = "TikTokenTokenizer" THEN TikEncode(s, add_bos, add_eos)
    ELSE s

decode(cls, toks) ==
    IF cls = "ByteTokenizer" THEN ByteDecode(toks) ELSE AADecode(toks)

bos_id(cls) ==
    IF cls = "ByteTokenizer" THEN Byte_bos_id
    ELSE IF cls = "AminoAcidTokenizer" THEN AA_bos_id
    ELSE Tik_bos_id

eos_id(cls) ==
    IF cls = "ByteTokenizer" THEN Byte_eos_id
    ELSE IF cls = "AminoAcidTokenizer" THEN AA_eos_id
    ELSE Tik_eos_id

n_words(cls) ==
    IF cls = "ByteTokenizer" THEN Byte_n_words
    ELSE IF cls = "AminoAcidTokenizer" THEN AA_n_words
    ELSE NumRanks + 256

\* ------------------------------------------------------------------- state

VARIABLES
    has_sp,        \* the import of sentencepiece succeeded
    has_tiktoken,  \* the import of tiktoken succeeded
    pc,            \* "start", "built", "encoded", "decoded" or "offsets"
    name,          \* the scheme name given to build_tokenizer
    tokenizer,     \* the class of the tokenizer built, "none" if none
    error,         \* the exception build_tokenizer raised, "none" if none
    text,          \* the text last given to encode or get_token_offsets
    add_bos,       \* the flags last given to encode
    add_eos,
    tokens,        \* what encode returned
    dec_in,        \* the token list last given to decode
    decoded,       \* what decode returned
    pieces,        \* the token bytes the byte-pair backend returned
    substrs,       \* what get_token_offsets returned
    offsets

vars == <<has_sp, has_tiktoken, pc, name, tokenizer, error, text, add_bos,
          add_eos, tokens, dec_in, decoded, pieces, substrs, offsets>>

Init ==
    /\ has_sp \in BOOLEAN
    /\ has_tiktoken \in BOOLEAN
    /\ pc = "start"
    /\ name = ""
    /\ tokenizer = "none"
    /\ error = "none"
    /\ text = <<>>
    /\ add_bos = FALSE
    /\ add_eos = FALSE
    /\ tokens = <<>>
    /\ dec_in = <<>>
    /\ decoded = <<>>
    /\ pieces = <<>>
    /\ substrs = <<>>
    /\ offsets = <<>>

\* build_tokenizer(name, path)
Build ==
    /\ pc = "start"
    /\ \E n \in Names, path_ok \in BOOLEAN :
         LET r == build_tokenizer(n, path_ok, has_sp, has_tiktoken) IN
         /\ name' = n
         /\ tokenizer' = r.cls
         /\ error' = r.error
    /\ pc' = "built"
    /\ UNCHANGED <<has_sp, has_tiktoken, text, add_bos, add_eos, tokens,
                   dec_in, decoded, pieces, substrs, offsets>>

\* tokenizer.encode(s, add_bos, add_eos)
Encode ==
    /\ pc = "built"
    /\ tokenizer \in {"ByteTokenizer", "AminoAcidTokenizer",
                      "TikTokenTokenizer", "MockTokenizer"}
    /\ \E s \in Texts, b1 \in BOOLEAN, b2 \in BOOLEAN :
         /\ text' = s
         /\ add_bos' = b1
         /\ add_eos' = b2
         /\ tokens' = encode(tokenizer, s, b1, b2)
    /\ pc' = "encoded"
    /\ UNCHANGED <<has_sp, has_tiktoken, name, tokenizer, error, dec_in,
                   decoded, pieces, substrs, offsets>>

\* tokenizer.decode(toks), toks being what encode returned, whole or with its
\* first or last token cut off
Decode ==
    /\ pc = "encoded"
    /\ tokenizer \in {"ByteTokenizer", "AminoAcidTokenizer"}
    /\ \E toks \in {tokens, Slice(tokens, 1, Len(tokens)),
                    Slice(tokens, 0, Len(tokens) - 1)} :
         /\ dec_in' = toks
         /\ decoded' = decode(tokenizer, toks)
    /\ pc' = "decoded"
    /\ UNCHANGED <<has_sp, has_tiktoken, name, tokenizer, error, text,
                   add_bos, add_eos, tokens, pieces, substrs, offsets>>

\* tokenizer.get_token_offsets(s), tokens omitted
GetTokenOffsets ==
    /\ pc = "built"
    /\ tokenizer \in {"ByteTokenizer", "AminoAcidTokenizer", "TikTokenTokenizer"}
    /\ \E s \in Texts :
         /\ text' = s
         /\ \E tb \in (IF tokenizer = "TikTokenTokenizer" THEN TokenBytes(s) ELSE {<<>>}) :
              LET r == IF tokenizer = "ByteTokenizer" THEN ByteGetTokenOffsets(s)
                       ELSE IF tokenizer = "AminoAcidTokenizer" THEN AAGetTokenOffsets(s)
                       ELSE TikGetTokenOffsets(s, tb)
              IN  /\ pieces' = tb
                  /\ substrs' = r[1]
                  /\ offsets' = r[2]
    /\ pc' = "offsets"
    /\ UNCHANGED <<has_sp, has_tiktoken, name, tokenizer, error, add_bos,
                   add_eos, tokens, dec_in, decoded>>

Next == Build \/ Encode \/ Decode \/ GetTokenOffsets

Spec == Init /\ [][Next]_vars

\* ------------------------------------------------------------------ claims

\* The bytes before character i (1-based) of s: where its encoding begins.
ByteStart(s, i) == Len(StrEncode(SubSeq(s, 1, i - 1)))

\* C1: byte-level get_token_offsets(T) returns one pair per character of T, in
\* order: the character and the byte position where its encoding begins.
C1_OnePairPerCharacter ==
    (pc = "offsets" /\ tokenizer = "ByteTokenizer") =>
        /\ Len(substrs) = Len(text)
        /\ Len(offsets) = Len(text)
        /\ \A i \in 1..Len(text) :
             /\ substrs[i] = <<text[i]>>
             /\ offsets[i] = ByteStart(text, i)

\* C2: byte-level round trip: decode(encode(T, b1, b2)) = T for all b1, b2.
C2_ByteRoundTrip ==
    (pc = "decoded" /\ tokenizer = "ByteTokenizer" /\ dec_in = tokens) =>
        decoded = text

\* C2 witness: a text with a multi-byte character and both markers decoded.
C2_Witness ==
    /\ pc = "decoded"
    /\ tokenizer = "ByteTokenizer"
    /\ dec_in = tokens
    /\ add_bos
    /\ add_eos
    /\ Len(text) >= 2
    /\ \E i \in 1..Len(text) : text[i] > 127
    /\ decoded = text

\* C3: encode(T, b1, b2) = [bos_id if b1] ++ encode(T, False, False) ++
\* [eos_id if b2]; it begins with bos_id iff b1 and ends with eos_id iff b2.
C3_MarkerPlacement ==
    (pc = "encoded" /\ tokenizer \in {"ByteTokenizer", "AminoAcidTokenizer",
                                      "TikTokenTokenizer"}) =>
        /\ tokens = Rep(bos_id(tokenizer), add_bos)
                    \o encode(tokenizer, text, FALSE, FALSE)
                    \o Rep(eos_id(tokenizer), add_eos)
        /\ (tokens # <<>> /\ tokens[1] = bos_id(tokenizer)) <=> add_bos
        /\ (tokens # <<>> /\ tokens[Len(tokens)] = eos_id(tokenizer)) <=> add_eos

\* C3 witness: the empty text encoded with the end marker only, so the first
\* token is the end marker and not the begin marker.
C3_Witness ==
    /\ pc = "encoded"
    /\ tokenizer = "AminoAcidTokenizer"
    /\ text = <<>>
    /\ ~add_bos
    /\ add_eos
    /\ tokens = <<AA_eos_id>>

\* C4: every token of encode(T, b1, b2) lies in [0, n_words), as do bos_id
\* and eos_id; n_words is 258 (byte-level) and 24 (fixed alphabet).
C4_RangeInvariant ==
    (pc = "encoded" /\ tokenizer \in {"ByteTokenizer", "AminoAcidTokenizer"}) =>
        /\ n_words(tokenizer) = (IF tokenizer = "ByteTokenizer" THEN 258 ELSE 24)
        /\ \A i \in 1..Len(tokens) :
             0 <= tokens[i] /\ tokens[i] < n_words(tokenizer)
        /\ 0 <= bos_id(tokenizer) /\ bos_id(tokenizer) < n_words(tokenizer)
        /\ 0 <= eos_id(tokenizer) /\ eos_id(tokenizer) < n_words(tokenizer)

\* C4 witness: the fixed-alphabet codec has encoded its last letter, 'V', whose
\* id is the largest of the vocabulary, between both markers.
C4_Witness ==
    /\ pc = "encoded"
    /\ tokenizer = "AminoAcidTokenizer"
    /\ add_bos
    /\ add_eos
    /\ \E i \in 1..Len(text) : text[i] = 86 /\ tokens[i + 1] = 23

\* C5: get_token_offsets returns as many substrings as offsets, the offsets
\* never decrease, and the last one is less than the length of a non-empty T
\* (in bytes for the byte-level codec, in characters for the others).
C5_OffsetsWellFormed ==
    (pc = "offsets") =>
        /\ Len(substrs) = Len(offsets)
        /\ \A i \in 1..(Len(offsets) - 1) : offsets[i] <= offsets[i + 1]
        /\ (text # <<>> /\ offsets # <<>>) =>
             offsets[Len(offsets)] <
                 (IF tokenizer = "ByteTokenizer" THEN Len(StrEncode(text))
                  ELSE Len(text))

\* C5 witness: the byte-pair codec was given a last piece that begins in the
\* middle of a character.
C5_Witness ==
    /\ pc = "offsets"
    /\ tokenizer = "TikTokenTokenizer"
    /\ Len(pieces) >= 2
    /\ IsCont(pieces[Len(pieces)][1])
    /\ offsets[Len(offsets)] = Len(text) - 1

\* The 20 letters
Alphabet == {AMINO_ACIDS[i] : i \in DOMAIN AMINO_ACIDS}

\* s without the characters outside the alphabet
RECURSIVE KeepAlphabet(_)
KeepAlphabet(s) ==
    IF s = <<>> THEN <<>>
    ELSE (IF Head(s) \in Alphabet THEN <<Head(s)>> ELSE <<>>) \o KeepAlphabet(Tail(s))

\* C6: fixed-alphabet encode(T, False, False) has one token per character: a
\* letter's own id (4..23, by its place in the alphabet), 2 for any other
\* character; decode(encode(T, b1, b2)) is T without the characters outside
\* the alphabet. encode("Z1") is two unknown markers and decodes to "".
C6_UnknownHandling ==
    /\ (pc = "encoded" /\ tokenizer = "AminoAcidTokenizer" /\ ~add_bos /\ ~add_eos) =>
         /\ Len(tokens) = Len(text)
         /\ \A i \in 1..Len(text) :
              IF text[i] \in Alphabet
              THEN /\ tokens[i] \in 4..23
                   /\ AMINO_ACIDS[tokens[i] - 3] = text[i]
              ELSE tokens[i] = 2
    /\ (pc = "decoded" /\ tokenizer = "AminoAcidTokenizer" /\ dec_in = tokens) =>
         decoded = KeepAlphabet(text)
    /\ AAEncode(<<90, 49>>, FALSE, FALSE) = <<2, 2>>
    /\ AADecode(AAEncode(<<90, 49>>, FALSE, FALSE)) = <<>>

\* C6 witness: a text with a letter and a character outside the alphabet was
\* encoded with both markers and decoded.
C6_Witness ==
    /\ pc = "decoded"
    /\ tokenizer = "AminoAcidTokenizer"
    /\ dec_in = tokens
    /\ add_bos
    /\ add_eos
    /\ \E i, j \in 1..Len(text) : text[i] \in Alphabet /\ text[j] \notin Alphabet
    /\ Len(decoded) < Len(text)

\* Exactly one of the characters on the two sides of position p is whitespace.
WhitespaceBoundary(s, p) ==
    p \in 1..(Len(s) - 1) /\ (IsSpace(s[p]) # IsSpace(s[p + 1]))

\* C7: for S longer than the slice length and p a whitespace boundary of S,
\* encode(S, False, False) = encode(S[:p], False, False) ++ encode(S[p:], False, False).
C7_ChunkedEquivalence ==
    (/\ pc = "encoded"
     /\ tokenizer = "TikTokenTokenizer"
     /\ ~add_bos
     /\ ~add_eos
     /\ Len(text) > TIKTOKEN_MAX_ENCODE_CHARS) =>
        \A p \in 1..(Len(text) - 1) :
            WhitespaceBoundary(text, p) =>
                tokens = encode(tokenizer, Slice(text, 0, p), FALSE, FALSE)
                         \o encode(tokenizer, Slice(text, p, Len(text)), FALSE, FALSE)

\* C8: build_tokenizer("mock") succeeds and yields a codec whose encode
\* returns the token sequence it is given, whatever the flags.
C8_MockPassThrough ==
    (pc # "start" /\ name = "mock") =>
        /\ error = "none"
        /\ tokenizer = "MockTokenizer"
        /\ \A toks \in Texts, b1 \in BOOLEAN, b2 \in BOOLEAN :
             encode(tokenizer, toks, b1, b2) = toks

\* C9: every pair (s, o) of fixed-alphabet get_token_offsets(T) has
\* 0 <= o < len(T) and T[o] = s.
C9_AAOffsetsPointAtFragment ==
    (pc = "offsets" /\ tokenizer = "AminoAcidTokenizer") =>
        \A i \in 1..Len(offsets) :
            /\ 0 <= offsets[i]
            /\ offsets[i] < Len(text)
            /\ substrs[i] = <<text[offsets[i] + 1]>>

\* The bytes in the pieces before piece i
RECURSIVE PieceStart(_, _)
PieceStart(ps, i) == IF i = 1 THEN 0 ELSE PieceStart(ps, i - 1) + Len(ps[i - 1])

\* The 0-based index of the character of s whose encoding holds byte b (0-based)
CharIndexOfByte(s, b) ==
    (CHOOSE k \in 1..Len(s) : ByteStart(s, k) <= b /\ b < ByteStart(s, k + 1)) - 1

\* C10: the i-th byte-pair offset is the index of the character that holds the
\* first byte of piece i; the first offset is 0 and the substrings
\* T[o_i : o_(i+1)] concatenate to T.
C10_BytePairOffsets ==
    (pc = "offsets" /\ tokenizer = "TikTokenTokenizer") =>
        /\ Len(offsets) = Len(pieces)
        /\ \A i \in 1..Len(pieces) :
             /\ offsets[i] = CharIndexOfByte(text, PieceStart(pieces, i))
             /\ substrs[i] = Slice(text, offsets[i],
                                   IF i < Len(offsets) THEN offsets[i + 1] ELSE Len(text))
        /\ (offsets # <<>> => offsets[1] = 0)
        /\ Flatten(substrs) = text

\* C10 witness: a piece in the middle begins inside a character, and a later
\* piece begins a character.
C10_Witness ==
    /\ pc = "offsets"
    /\ tokenizer = "TikTokenTokenizer"
    /\ Len(pieces) = 3
    /\ IsCont(pieces[2][1])
    /\ ~IsCont(pieces[3][1])
    /\ offsets[2] = 0
    /\ offsets[3] > 0

====
